---- MODULE Spec2Model ----
(***************************************************************************)
(* SAGA: Slack slash command -> GitHub repository_dispatch relay.          *)
(* The repository holds four variants of the same handler:                 *)
(*   "index"     src/index.ts            acknowledger Lambda + worker      *)
(*   "part_001"  src/unnamed/part_001    one Lambda, detached background   *)
(*   "part_002"  src/unnamed/part_002    inline handler + notifyProdChannel*)
(*   "part_003"  src/unnamed/part_003    inline handler                    *)
(* One deployment (a variant and its configuration) serves the requests    *)
(* of a run; each request is followed from its arrival to the end of its   *)
(* dispatch/notify path, the outcomes of the outbound calls being the      *)
(* environment's choice.                                                   *)
(***************************************************************************)
EXTENDS Integers, Sequences, FiniteSets, TLC

VARIABLES
  variant,             \* which of the four programs is deployed
  slackSigningSecret,  \* process.env.SLACK_SIGNING_SECRET
  reqs,                \* the requests of this run
  request,             \* request[r]: raw body and headers of request r
  nowMs,               \* nowMs[r]: Date.now() when request r is authorized
  run,                 \* run[r]: the state of the invocation(s) serving r
  queue                \* worker invocations accepted by Lambda, not yet started

vars == <<variant, slackSigningSecret, reqs, request, nowMs, run, queue>>

\* ------------------------------------------------------------------ bounds
\* Longest command text, in characters.
MaxTextLen == 2

\* ------------------------------------------------------------- JS values
\* undefined, where a string is expected: no string over Chars equals it.
Undefined == <<"undefined">>

Variants == {"index", "part_001", "part_002", "part_003"}

\* Characters of a command text.
Chars == {"a", " "}

RECURSIVE StringsUpTo(_)
StringsUpTo(n) ==
  IF n = 0 THEN {<<>>}
  ELSE LET shorter == StringsUpTo(n - 1)
       IN shorter \cup {Append(s, c) : s \in {t \in shorter : Len(t) = n - 1}, c \in Chars}

\* String.prototype.split(' '): cut at every single space; adjacent, leading
\* and trailing spaces give empty tokens; "" gives [""].
RECURSIVE Split(_)
Split(s) ==
  IF \A i \in 1..Len(s) : s[i] # " " THEN <<s>>
  ELSE LET p == CHOOSE i \in 1..Len(s) :
                  s[i] = " " /\ \A j \in 1..(i - 1) : s[j] # " "
       IN <<SubSeq(s, 1, p - 1)>> \o Split(SubSeq(s, p + 1, Len(s)))

\* JS truthiness of a string-or-undefined value.
Falsy(v) == v = Undefined \/ v = <<>>

\* Template literal interpolation `${v}` of a string-or-undefined value.
Interpolate(v) ==
  IF v = Undefined THEN <<"u", "n", "d", "e", "f", "i", "n", "e", "d">> ELSE v

\* ---------------------------------------------------------- slash command
\* The flat mapping Slack posts; the text field may be missing.
CommandFields == {"command", "user_name", "response_url"}

\* The fields of the command sent by user u (1, 2, ...), other than its text.
FixedField(k, u) ==
  CASE k = "command" -> <<"/", "s">>
    [] k = "user_name" -> <<"u", u>>
    [] k = "response_url" -> <<"r", u>>

PayloadsOf(u) ==
  {[k \in CommandFields |-> FixedField(k, u)]} \cup
  {[k \in CommandFields \cup {"text"} |->
      IF k = "text" THEN t ELSE FixedField(k, u)] : t \in StringsUpTo(MaxTextLen)}

Field(m, k) == IF k \in DOMAIN m THEN m[k] ELSE Undefined

\* Transport encoding of the request body: form-url-encoded pairs, base64'd.
KeyOrder == <<"command", "response_url", "text", "user_name">>

FormEncode(m) ==
  LET present == SelectSeq(KeyOrder, LAMBDA k : k \in DOMAIN m)
  IN [i \in 1..Len(present) |-> <<present[i], m[present[i]]>>]

Base64Encode(s) == [base64 |-> s]

\* Buffer.from(rawBody, 'base64').toString('utf-8')
Base64Decode(raw) == raw.base64

\* querystring.parse
QuerystringParse(form) ==
  [k \in {form[i][1] : i \in 1..Len(form)} |->
     (form[CHOOSE i \in 1..Len(form) : form[i][1] = k])[2]]

RawBodiesOf(u) == {Base64Encode(FormEncode(p)) : p \in PayloadsOf(u)}

\* A request without a body (API Gateway hands the callback null).
Null == [base64 |-> <<>>]

\* ------------------------------------------------------------- signature
Version == "v0"

\* process.env.SLACK_SIGNING_SECRET when the variable is not set.
SecretUnset == "unset"
Secrets == {"secret"}
OtherKey == "other"

\* A header value that is a timestamp: decimal digits (n) or anything else.
Digits(n) == [digits |-> TRUE, n |-> n]
Garbage == [digits |-> FALSE, n |-> 0]
UndefinedTimestamp == [digits |-> FALSE, n |-> -1]

\* `${version}:${timestamp}:${rawBody}`
Basestring(timestamp, rawBody) == <<Version, timestamp, rawBody>>

\* crypto.createHmac('sha256', key).update(basestring).digest('hex'):
\* a collision-free keyed digest.
Hmac(key, basestring) == [key |-> key, digest |-> basestring]

\* `${version}=${hash}`
Signed(key, timestamp, rawBody) == <<Version, Hmac(key, Basestring(timestamp, rawBody))>>

UndefinedSignature == <<"undefined", Hmac("", Basestring(UndefinedTimestamp, Null))>>

SignatureHeader == "X-Slack-Signature"
TimestampHeader == "X-Slack-Request-Timestamp"

\* headers[name], undefined when the header is absent.
Header(headers, name) ==
  IF name \in DOMAIN headers THEN headers[name]
  ELSE IF name = SignatureHeader THEN UndefinedSignature ELSE UndefinedTimestamp

\* Clock: Date.now() in milliseconds; the request's timestamps are seconds.
NowSeconds == 1000 * 1000
Clocks == {NowSeconds * 1000, NowSeconds * 1000 + 500}

FiveMinutes == 60 * 5

TimestampValues ==
  {Digits(NowSeconds - FiveMinutes - 1), Digits(NowSeconds - FiveMinutes),
   Digits(NowSeconds), Digits(NowSeconds + FiveMinutes + 1), Garbage}

Abs(x) == IF x < 0 THEN -x ELSE x


\* Math.abs(Date.now() / 1000 - parseInt(timestamp, 10)) > 60 * 5
\* (parseInt of a non-number is NaN, and every comparison with NaN is false)
OutsideWindow(timestamp, now) ==
  timestamp.digits /\ Abs(now - timestamp.n * 1000) > FiveMinutes * 1000

\* parseInt(timestamp, 10) < Math.floor(Date.now() / 1000) - 60 * 5
BeforeFiveMinutesAgo(timestamp, now) ==
  timestamp.digits /\ timestamp.n < (now \div 1000) - FiveMinutes

Ok == [thrown |-> FALSE, message |-> ""]
Throw(message) == [thrown |-> TRUE, message |-> message]

\* crypto.createHmac throws a TypeError when the key is undefined.
KeyTypeError == Throw("The \"key\" argument must be of type string")

\* authorize of src/index.ts, called at time now
AuthorizeIndex(rawBody, headers, now) ==
  LET signature == Header(headers, SignatureHeader)
      timestamp == Header(headers, TimestampHeader)
  IN IF signature = UndefinedSignature \/ timestamp = UndefinedTimestamp
       THEN Throw("Missing Slack signature or timestamp headers")
     ELSE IF OutsideWindow(timestamp, now)
       THEN Throw("Slack request timestamp is too old")
     ELSE IF slackSigningSecret = SecretUnset
       THEN KeyTypeError
     ELSE IF Signed(slackSigningSecret, timestamp, rawBody) # signature
       THEN Throw("Slack signature verification failed")
     ELSE Ok

\* authorize of src/unnamed/part_001
Authorize001(rawBody, headers, now) ==
  LET signature == Header(headers, SignatureHeader)
      timestamp == Header(headers, TimestampHeader)
  IN IF slackSigningSecret = SecretUnset \/ signature = UndefinedSignature
          \/ timestamp = UndefinedTimestamp
       THEN Throw("Missing Slack signing secret or request headers for verification.")
     ELSE IF BeforeFiveMinutesAgo(timestamp, now)
       THEN Throw("Slack request timestamp is too old.")
     ELSE IF Signed(slackSigningSecret, timestamp, rawBody) # signature
       THEN Throw("Slack signature verification failed.")
     ELSE Ok

\* authorize of src/unnamed/part_002: no header check, no replay check, and
\* the throw is on equality
Authorize002(rawBody, headers, now) ==
  LET signature == Header(headers, SignatureHeader)
      timestamp == Header(headers, TimestampHeader)
  IN IF slackSigningSecret = SecretUnset
       THEN KeyTypeError
     ELSE IF signature = Signed(slackSigningSecret, timestamp, rawBody)
       THEN Throw("The Slack App installation token doesn't match the one set on saga's record")
     ELSE Ok

\* authorize of src/unnamed/part_003: the code of part_002
Authorize003(rawBody, headers, now) ==
  LET signature == Header(headers, SignatureHeader)
      timestamp == Header(headers, TimestampHeader)
  IN IF slackSigningSecret = SecretUnset
       THEN KeyTypeError
     ELSE IF signature = Signed(slackSigningSecret, timestamp, rawBody)
       THEN Throw("The Slack App installation token doesn't match the one set on saga's record")
     ELSE Ok

authorize(rawBody, headers, now) ==
  CASE variant = "index" -> AuthorizeIndex(rawBody, headers, now)
    [] variant = "part_001" -> Authorize001(rawBody, headers, now)
    [] variant = "part_002" -> Authorize002(rawBody, headers, now)
    [] variant = "part_003" -> Authorize003(rawBody, headers, now)

\* ------------------------------------------------------------- requests
AltTimestamp(timestamp) ==
  IF timestamp = Digits(NowSeconds) THEN Digits(NowSeconds - FiveMinutes - 1)
  ELSE Digits(NowSeconds)

AltBody(rawBody) ==
  IF rawBody = Null THEN CHOOSE b \in RawBodiesOf(1) : TRUE ELSE Null

\* What a sender can put in X-Slack-Signature for a timestamp header and a
\* body: a signature made with the app's secret or with another key, over
\* this timestamp and body or over other ones.
SignaturesFor(timestamp, rawBody) ==
  {Signed(k, t, b) : k \in Secrets \cup {OtherKey},
                     t \in {timestamp, AltTimestamp(timestamp)},
                     b \in {rawBody, AltBody(rawBody)}}

\* The headers of a request; an undefined value stands for an absent header.
Headers(signature, timestamp) ==
  LET names == (IF signature = UndefinedSignature THEN {} ELSE {SignatureHeader})
               \cup (IF timestamp = UndefinedTimestamp THEN {} ELSE {TimestampHeader})
  IN [h \in names |-> IF h = SignatureHeader THEN signature ELSE timestamp]

\* The requests user u can send: any body or none, each header present or not.
RequestsOf(u) ==
  UNION {UNION {{[body |-> b, headers |-> Headers(sg, ts)] :
                   sg \in SignaturesFor(ts, b) \cup {UndefinedSignature}}
                : ts \in TimestampValues \cup {UndefinedTimestamp}}
         : b \in RawBodiesOf(u) \cup {Null}}

\* ----------------------------------------------------------- hand-off
\* JSON.stringify of a flat mapping of strings, and JSON.parse of it.
JsonStringify(m) == [json |-> FormEncode(m)]
JsonParse(payload) == QuerystringParse(payload.json)

\* const body = querystring.parse(Buffer.from(rawBody, 'base64').toString('utf-8'))
Decode(rawBody) == QuerystringParse(Base64Decode(rawBody))

\* ------------------------------------------------------- HTTP responses
NoResponse == [json |-> FALSE, response_type |-> "", text |-> <<>>]
Plain(text) == [json |-> FALSE, response_type |-> "", text |-> <<text>>]
Ephemeral(text) == [json |-> TRUE, response_type |-> "ephemeral", text |-> text]

AckText == <<"Triggering the workflow now...">>

\* ------------------------------------------------- dispatch and notify
\* const args = body.text?.split(' ') || []   (index.ts, part_001)
\* const args = body.text?.split(' ')         (part_002, part_003: may be undefined)
Args(b) == IF Field(b, "text") = Undefined THEN <<>> ELSE Split(Field(b, "text"))

\* args[0]
EventTypeOf(args) == IF args = <<>> THEN Undefined ELSE args[1]

\* args[0] on an undefined args throws a TypeError.
ArgsUndefined(b) ==
  variant \in {"part_002", "part_003"} /\ Field(b, "text") = Undefined

\* if (!eventType) { respond; return }: only part_001 has the check.
RejectsEmptyEventType(eventType) == variant = "part_001" /\ Falsy(eventType)

\* pick(body, 'command', 'user_name')
Pick(b, keys) == [k \in keys \cap DOMAIN b |-> b[k]]

SagaPrefix == <<"s", "a", "g", "a", "-">>

\* The same call with the whole body spread into client_payload
\* ({ ...body, args } in place of the pick).
DispatchWholeBody(b, args, eventType) ==
  [event_type |-> SagaPrefix \o Interpolate(eventType),
   client_payload |-> [k \in DOMAIN b \cup {"args"} |->
                         IF k = "args" THEN args ELSE b[k]],
   outcome |-> "pending"]

\* createDispatchEvent({ event_type: `saga-${eventType}`,
\*                       client_payload: { ...pick(body, 'command', 'user_name'), args } })
DispatchEvent(b, args, eventType) ==
  LET picked == Pick(b, {"command", "user_name"})
  IN [event_type |-> SagaPrefix \o Interpolate(eventType),
      client_payload |-> [k \in DOMAIN picked \cup {"args"} |->
                            IF k = "args" THEN args ELSE picked[k]],
      outcome |-> "pending"]

\* The follow-up messages, by which literal they are.
SuccessText(eventType) ==
  IF variant \in {"index", "part_001"}
  THEN <<"Successfully triggered GitHub Action", Interpolate(eventType)>>
  ELSE <<"On it!">>

FailureText == <<"Failed to trigger GitHub Action">>
ValidationText == <<"Error: Please provide a command.">>

\* actions[eventType] of notifyProdChannel
ProdAction(eventType) ==
  CASE eventType = <<"t", "a", "g">> -> "tagged a new release"
    [] eventType = <<"d", "e", "p", "l", "o", "y">> -> "triggered a deployment"
    [] OTHER -> "undefined"

ProdText(b, eventType) == <<"broadcast", Field(b, "user_name"), ProdAction(eventType)>>

\* The same POST with the response_url kept in a module-level variable that
\* every invocation of the process shares.
respondToSlackShared(b, text) ==
  [url |-> FixedField("response_url", 1), response_type |-> "ephemeral",
   channel |-> "", text |-> text, outcome |-> "pending"]

\* axios.post(body.response_url, { response_type: 'ephemeral', text })
respondToSlack(b, text) ==
  [url |-> Field(b, "response_url"), response_type |-> "ephemeral",
   channel |-> "", text |-> text, outcome |-> "pending"]

\* axios.post(body.response_url, { response_type, channel: prodChannelId, text })
notifyProdChannel(b, eventType) ==
  [url |-> Field(b, "response_url"), response_type |-> "ephemeral",
   channel |-> "CR4MU5RLN", text |-> ProdText(b, eventType), outcome |-> "pending"]

\* --------------------------------------------- one request's invocation
\* hpc: where the HTTP-facing callback is; bpc: where the dispatch -> notify
\* path is; dispatches, posts: the outbound calls made for the request, in
\* order, each with its outcome; errors: console.error calls; fault: the
\* rejection nothing caught, if any.
Arrived ==
  [hpc |-> "received", httpStatus |-> 0, httpBody |-> NoResponse,
   bpc |-> "idle", body |-> Decode(Null), dispatches |-> <<>>, posts |-> <<>>,
   errors |-> 0, fault |-> "none"]

\* return { statusCode, body }
Respond(st, status, response) ==
  [st EXCEPT !.httpStatus = status, !.httpBody = response, !.hpc = "responded"]

\* The callback's promise rejects: it returns no response.
HandlerThrows(st) == [st EXCEPT !.hpc = "crashed", !.fault = "handler"]

\* The call that just completed gets its outcome.
Settle(calls, outcome) == [calls EXCEPT ![Len(calls)].outcome = outcome]

\* The try block up to its first await, for the decoded body st.body.
TryBlock(st) ==
  IF ArgsUndefined(st.body)
  THEN [st EXCEPT !.errors = @ + 1,
                  !.posts = Append(@, respondToSlack(st.body, FailureText)),
                  !.bpc = "postFailure"]
  ELSE LET args == Args(st.body)
           eventType == EventTypeOf(args)
       IN IF RejectsEmptyEventType(eventType)
          THEN [st EXCEPT !.posts = Append(@, respondToSlack(st.body, ValidationText)),
                          !.bpc = "postValidation"]
          ELSE [st EXCEPT !.dispatches = Append(@, DispatchEvent(st.body, args, eventType)),
                          !.bpc = "dispatching"]

\* catch (e) { console.error(e); await respondToSlack(<failure>) }
Catch(st) ==
  [st EXCEPT !.errors = @ + 1,
             !.posts = Append(@, respondToSlack(st.body, FailureText)),
             !.bpc = "postFailure"]

\* part_002 and part_003 await the whole path inside the handler; index.ts runs
\* it in the worker, part_001 in the detached runBackgroundTask.
Inline == variant \in {"part_002", "part_003"}

\* The path ends normally; an inline handler then returns { statusCode: 200, body: '' }.
Finish(st) ==
  LET ended == [st EXCEPT !.bpc = "done"]
  IN IF Inline THEN Respond(ended, 200, Plain("")) ELSE ended

\* A rejection inside the catch block: nothing catches it.
Escapes(st) ==
  [st EXCEPT !.bpc = "crashed",
             !.fault = CASE variant = "index" -> "worker"
                         [] variant = "part_001" -> "unhandledRejection"
                         [] OTHER -> "handler",
             !.hpc = IF Inline THEN "crashed" ELSE @]

\* ------------------------------------------------------------------ state
\* One request, from user 1, to a deployment of any variant.
Init ==
  /\ variant \in Variants
  /\ slackSigningSecret \in Secrets \cup {SecretUnset}
  /\ reqs = {1}
  /\ \E q \in RequestsOf(1) : request = [r \in reqs |-> q]
  /\ nowMs \in [reqs -> Clocks]
  /\ run = [r \in reqs |-> Arrived]
  /\ queue = <<>>

Deployment == <<variant, slackSigningSecret, reqs, request, nowMs>>

Auth(r) == authorize(request[r].body, request[r].headers, nowMs[r])

\* -------------------------------------------------- src/index.ts: acknowledger
\* The acknowledger callback up to `await lambdaClient.send(command)`.
Acknowledger ==
  \E r \in reqs :
    /\ variant = "index"
    /\ run[r].hpc = "received"
    /\ run' = [run EXCEPT ![r] =
         IF request[r].body = Null
         THEN Respond(@, 400, Plain("Bad Request: Missing body"))
         ELSE IF Auth(r).thrown
         THEN Respond([@ EXCEPT !.errors = @ + 1], 500,
                      Ephemeral(<<"Error: ", Auth(r).message>>))
         ELSE [@ EXCEPT !.hpc = "invoking"]]
    /\ UNCHANGED <<Deployment, queue>>

\* Lambda accepts the InvocationType 'Event' call: the worker invocation is
\* queued, with the serialised body as its payload.
InvokeAccepted ==
  \E r \in reqs :
    /\ variant = "index"
    /\ run[r].hpc = "invoking"
    /\ queue' = Append(queue, [Payload |-> JsonStringify(Decode(request[r].body)),
                               for |-> r])
    /\ run' = [run EXCEPT ![r].hpc = "invoked"]
    /\ UNCHANGED Deployment

\* lambdaClient.send rejects: the catch block answers 500.
InvokeFailed ==
  \E r \in reqs :
    /\ variant = "index"
    /\ run[r].hpc = "invoking"
    /\ run' = [run EXCEPT ![r] =
         Respond([@ EXCEPT !.errors = @ + 1], 500,
                 Ephemeral(<<"Error: ", "invoke failed">>))]
    /\ UNCHANGED <<Deployment, queue>>

\* The acknowledger returning its 200 without awaiting send.
AckRespondEarly ==
  \E r \in reqs :
    /\ variant = "index"
    /\ run[r].hpc = "invoking"
    /\ run' = [run EXCEPT ![r] = Respond(@, 200, Ephemeral(AckText))]
    /\ UNCHANGED <<Deployment, queue>>

\* send has resolved: the acknowledger returns its 200.
AckRespond ==
  \E r \in reqs :
    /\ variant = "index"
    /\ run[r].hpc = "invoked"
    /\ run' = [run EXCEPT ![r] = Respond(@, 200, Ephemeral(AckText))]
    /\ UNCHANGED <<Deployment, queue>>

\* ------------------------------------------------------ src/index.ts: worker
\* The event a worker invocation starts with. Lambda parses the Payload of the
\* Invoke call and hands the handler the document itself: for the acknowledger's
\* Payload that is the command mapping, which has no Payload property. The
\* callback declares its event as { Payload: string }, the document wrapped;
\* an invoker that wraps it so is followed as well.
LambdaEvent(payload, wrapped) ==
  IF wrapped THEN [Payload |-> payload] ELSE JsonParse(payload)

\* JSON.parse(event.Payload) is outside the try block: on an event without a
\* Payload property it throws a SyntaxError and the invocation fails.
WorkerThrows(st) == [st EXCEPT !.bpc = "crashed", !.fault = "worker"]

\* Lambda starts a queued invocation: the worker callback, from its event to
\* its first await.
WorkerStart ==
  /\ variant = "index"
  /\ \E i \in 1..Len(queue), wrapped \in BOOLEAN :
       LET event == LambdaEvent(queue[i].Payload, wrapped)
           r == queue[i].for
       IN /\ run[r].bpc = "idle"
          /\ queue' = SubSeq(queue, 1, i - 1) \o SubSeq(queue, i + 1, Len(queue))
          /\ run' = [run EXCEPT ![r] =
               IF "Payload" \in DOMAIN event
               THEN TryBlock([@ EXCEPT !.body = JsonParse(event.Payload)])
               ELSE WorkerThrows(@)]
  /\ UNCHANGED Deployment

\* ------------------------------------------------------ src/unnamed/part_001
\* The callback with the argument list kept at module level: the tokens of
\* an earlier request stay in front of those of the next one.
SagaCallback001Stateful ==
  \E r \in reqs :
    /\ variant = "part_001"
    /\ run[r].hpc = "received"
    /\ LET own == Decode(request[r].body)
           earlier == {r2 \in reqs \ {r} :
                         run[r2].bpc # "idle" /\ "text" \in DOMAIN run[r2].body}
           seen == IF earlier = {} \/ "text" \notin DOMAIN own THEN own
                   ELSE [own EXCEPT !["text"] =
                           run[CHOOSE r2 \in earlier : TRUE].body["text"] \o <<" ">> \o @]
       IN run' = [run EXCEPT ![r] =
            IF Auth(r).thrown
            THEN Respond([@ EXCEPT !.errors = @ + 1], 401, Plain("Authorization failed."))
            ELSE IF request[r].body = Null
            THEN HandlerThrows(@)
            ELSE Respond(TryBlock([@ EXCEPT !.body = seen]), 200, Ephemeral(AckText))]
    /\ UNCHANGED <<Deployment, queue>>

\* The callback: authorize, decode, start runBackgroundTask without awaiting
\* it (it runs to its first await), return 200.
SagaCallback001 ==
  \E r \in reqs :
    /\ variant = "part_001"
    /\ run[r].hpc = "received"
    /\ run' = [run EXCEPT ![r] =
         IF Auth(r).thrown
         THEN Respond([@ EXCEPT !.errors = @ + 1], 401, Plain("Authorization failed."))
         ELSE IF request[r].body = Null
         THEN HandlerThrows(@)
         ELSE Respond(TryBlock([@ EXCEPT !.body = Decode(request[r].body)]),
                      200, Ephemeral(AckText))]
    /\ UNCHANGED <<Deployment, queue>>

\* ---------------------------------- src/unnamed/part_002, src/unnamed/part_003
\* The handler up to its first await: authorize and decode are outside the try.
EventHandler ==
  \E r \in reqs :
    /\ Inline
    /\ run[r].hpc = "received"
    /\ run' = [run EXCEPT ![r] =
         IF Auth(r).thrown \/ request[r].body = Null
         THEN HandlerThrows(@)
         ELSE [TryBlock([@ EXCEPT !.body = Decode(request[r].body)])
                 EXCEPT !.hpc = "running"]]
    /\ UNCHANGED <<Deployment, queue>>

\* ------------------------------------------ the dispatch -> notify path
\* createDispatchEvent resolves: the success message is posted.
DispatchResolves ==
  \E r \in reqs :
    /\ run[r].bpc = "dispatching"
    /\ run' = [run EXCEPT ![r] =
         [@ EXCEPT !.dispatches = Settle(@, "ok"),
                   !.posts = Append(@, respondToSlack(run[r].body,
                                         SuccessText(EventTypeOf(Args(run[r].body))))),
                   !.bpc = "postSuccess"]]
    /\ UNCHANGED <<Deployment, queue>>

\* createDispatchEvent rejects (network error, non-2xx, bad credentials).
DispatchRejects ==
  \E r \in reqs :
    /\ run[r].bpc = "dispatching"
    /\ run' = [run EXCEPT ![r] = Catch([@ EXCEPT !.dispatches = Settle(@, "error")])]
    /\ UNCHANGED <<Deployment, queue>>

Posting == {"postSuccess", "postProd", "postFailure", "postValidation"}

\* An axios.post to response_url resolves.
PostResolves ==
  \E r \in reqs :
    /\ run[r].bpc \in Posting
    /\ run' = [run EXCEPT ![r] =
         LET settled == [@ EXCEPT !.posts = Settle(@, "ok")]
         IN IF @.bpc = "postSuccess" /\ variant = "part_002"
            THEN [settled EXCEPT
                    !.posts = Append(@, notifyProdChannel(run[r].body,
                                          EventTypeOf(Args(run[r].body)))),
                    !.bpc = "postProd"]
            ELSE Finish(settled)]
    /\ UNCHANGED <<Deployment, queue>>

\* An axios.post to response_url rejects: inside the try block the catch block
\* takes it, inside the catch block nothing does.
PostRejects ==
  \E r \in reqs :
    /\ run[r].bpc \in Posting
    /\ run' = [run EXCEPT ![r] =
         LET settled == [@ EXCEPT !.posts = Settle(@, "error")]
         IN IF @.bpc = "postFailure" THEN Escapes(settled) ELSE Catch(settled)]
    /\ UNCHANGED <<Deployment, queue>>

Next ==
  \/ Acknowledger
  \/ InvokeAccepted
  \/ InvokeFailed
  \/ AckRespond
  \/ WorkerStart
  \/ SagaCallback001
  \/ EventHandler
  \/ DispatchResolves
  \/ DispatchRejects
  \/ PostResolves
  \/ PostRejects

Spec == Init /\ [][Next]_vars

\* Lambda starts every queued invocation and returns from every Invoke call;
\* every call to GitHub and to response_url returns, one way or the other.
FairSpec ==
  /\ Spec
  /\ WF_vars(InvokeAccepted \/ InvokeFailed)
  /\ WF_vars(AckRespond)
  /\ WF_vars(WorkerStart)
  /\ WF_vars(DispatchResolves \/ DispatchRejects)
  /\ WF_vars(PostResolves \/ PostRejects)

\* ------------------------------------------------------------ two requests
\* The requests of user u that a run of two requests draws from: a command
\* without text, with one token or with another; the timestamp header current,
\* old or absent; the signature made with the app's secret or with another
\* key over this timestamp and body, or absent.
SampleOf(u) ==
  {q \in RequestsOf(u) :
     /\ q.body # Null
     /\ Field(Decode(q.body), "text") \in {Undefined, <<"a">>, <<"a", "a">>}
     /\ Header(q.headers, TimestampHeader) \in
          {Digits(NowSeconds), Digits(NowSeconds - FiveMinutes - 1), UndefinedTimestamp}
     /\ Header(q.headers, SignatureHeader) \in
          {UndefinedSignature} \cup
          {Signed(k, Header(q.headers, TimestampHeader), q.body) : k \in Secrets \cup {OtherKey}}}

\* Two requests to one deployment, from the same user (possibly the same
\* request twice) or from two users; they are served concurrently.
InitPair ==
  /\ variant \in Variants
  /\ slackSigningSecret \in Secrets \cup {SecretUnset}
  /\ reqs = {1, 2}
  /\ \E q1 \in SampleOf(1), q2 \in SampleOf(1) \cup SampleOf(2) :
       request = [r \in reqs |-> IF r = 1 THEN q1 ELSE q2]
  /\ nowMs \in [reqs -> Clocks]
  /\ run = [r \in reqs |-> Arrived]
  /\ queue = <<>>

SpecPair == InitPair /\ [][Next]_vars

\* ================================================================ properties
\* The signature header of request r is exactly
\* "v0=" + HMAC-SHA256(secret, "v0:<timestamp>:<rawBody>") for the configured
\* secret, the request's timestamp header and its raw body.
SignatureMatches(r) ==
  /\ slackSigningSecret \in Secrets
  /\ SignatureHeader \in DOMAIN request[r].headers
  /\ request[r].headers[SignatureHeader] =
       Signed(slackSigningSecret, Header(request[r].headers, TimestampHeader),
              request[r].body)

HasBody(r) == request[r].body # Null
HasSignature(r) == SignatureHeader \in DOMAIN request[r].headers
HasTimestamp(r) == TimestampHeader \in DOMAIN request[r].headers
NumericTimestamp(r) == HasTimestamp(r) /\ request[r].headers[TimestampHeader].digits
TimestampOf(r) == request[r].headers[TimestampHeader].n

\* Within the five-minute window, on either side of the clock.
Fresh(r) ==
  NumericTimestamp(r) /\ Abs(nowMs[r] - TimestampOf(r) * 1000) <= FiveMinutes * 1000

\* More than five minutes old, in whole seconds of the clock.
Stale(r) ==
  NumericTimestamp(r) /\ TimestampOf(r) < (nowMs[r] \div 1000) - FiveMinutes

IsFailure(p) == p.text = FailureText
IsSuccess(p) == p.text[1] \in {"Successfully triggered GitHub Action", "On it!"}
IsBroadcast(p) == p.channel # ""
IsOutcome(p) == ~IsBroadcast(p)

Failures(r) == SelectSeq(run[r].posts, IsFailure)
Successes(r) == SelectSeq(run[r].posts, IsSuccess)
Outcomes(r) == SelectSeq(run[r].posts, IsOutcome)

DispatchOk(r) ==
  \E i \in 1..Len(run[r].dispatches) : run[r].dispatches[i].outcome = "ok"
DispatchError(r) ==
  \E i \in 1..Len(run[r].dispatches) : run[r].dispatches[i].outcome = "error"
BroadcastError(r) ==
  \E i \in 1..Len(run[r].posts) :
    IsBroadcast(run[r].posts[i]) /\ run[r].posts[i].outcome = "error"

\* The dispatch -> notify path of r has run to its end, normally or not.
Completed(r) == run[r].bpc \in {"done", "crashed"}

\* Nothing was forwarded for r: no worker invocation, no dispatch call, no POST.
NothingForwarded(r) ==
  /\ \A i \in 1..Len(queue) : queue[i].for # r
  /\ run[r].bpc = "idle"
  /\ run[r].dispatches = <<>>
  /\ run[r].posts = <<>>
  /\ run[r].hpc \notin {"invoking", "invoked", "running"}

\* The body of r has been decoded by the dispatch -> notify path; its first token.
Decoded(r) == run[r].bpc # "idle"
FirstToken(r) == EventTypeOf(Args(run[r].body))

\* No outbound call of r completes in this step.
NoCallCompletes(r) ==
  /\ \A i \in 1..Len(run[r].dispatches) :
       run'[r].dispatches[i].outcome = run[r].dispatches[i].outcome
  /\ \A i \in 1..Len(run[r].posts) :
       run'[r].posts[i].outcome = run[r].posts[i].outcome

\* C1: a request whose signature header is not the HMAC of its timestamp and
\* body under the configured secret is answered 401 and nothing is forwarded
\* for it: no worker invocation, no dispatch call, no POST to response_url.
\* Stated for the requests that are otherwise in order: a secret is configured,
\* the body and both headers are present, the timestamp is fresh.
C1_InvalidSignatureDropped ==
  \A r \in reqs :
    (/\ slackSigningSecret \in Secrets
     /\ HasBody(r) /\ HasSignature(r) /\ Fresh(r)
     /\ ~SignatureMatches(r)) =>
      /\ NothingForwarded(r)
      /\ run[r].hpc # "received" => run[r].httpStatus = 401

\* C2: a request that passed verification and has an event type ends, once its
\* background path has completed, with exactly one dispatch attempt and exactly
\* one outcome notification POST, whatever the outcomes of the calls.
C2_OneDispatchOneNotification ==
  \A r \in reqs :
    (Completed(r) /\ ~Falsy(FirstToken(r))) =>
      /\ Len(run[r].dispatches) = 1
      /\ Len(Outcomes(r)) = 1

\* The first token of the command that request r carries.
RequestToken(r) == EventTypeOf(Args(Decode(request[r].body)))

\* C3: the 200 response of an accepted request is not held back by the dispatch
\* or by the notification: the step that produces it is never the completion of
\* createDispatchEvent or of a POST to response_url. Stated for the requests
\* that name an event type.
C3_AckDoesNotWait ==
  [][\A r \in reqs :
       (/\ ~Falsy(RequestToken(r))
        /\ run[r].httpStatus # 200
        /\ run'[r].httpStatus = 200) => NoCallCompletes(r)]_vars

\* C4: when the dispatch call of a validly signed request succeeds, no failure
\* notification is ever sent for it, and once the path has completed exactly one
\* success notification, naming the event type, was sent.
C4_SuccessNotifiedOnce ==
  \A r \in reqs :
    (SignatureMatches(r) /\ DispatchOk(r)) =>
      /\ Len(Failures(r)) = 0
      /\ Completed(r) =>
           /\ Len(Successes(r)) = 1
           /\ Successes(r)[1].text[Len(Successes(r)[1].text)] = Interpolate(FirstToken(r))

C6_NoDispatchWithoutEventType ==
  \A r \in reqs :
    (SignatureMatches(r) /\ Fresh(r) /\ Decoded(r) /\ Falsy(FirstToken(r))) =>
      run[r].dispatches = <<>>

\* C7: a request (with a body) whose timestamp is more than five minutes old,
\* or that lacks the signature header or the timestamp header, or that arrives
\* while no signing secret is configured, is rejected by authorize and nothing
\* is forwarded for it.
C7_StaleOrIncompleteRejected ==
  \A r \in reqs :
    (/\ HasBody(r)
     /\ \/ Stale(r)
        \/ ~HasSignature(r)
        \/ ~HasTimestamp(r)
        \/ slackSigningSecret = SecretUnset) =>
      /\ run[r].hpc # "received" => Auth(r).thrown
      /\ NothingForwarded(r)
      /\ run[r].httpStatus # 200

\* C8: a request with a body, a fresh timestamp and the signature computed
\* with the configured secret over that timestamp and body is accepted by
\* authorize and goes on to decoding.
C8_SignedRequestAccepted ==
  \A r \in reqs :
    (SignatureMatches(r) /\ Fresh(r) /\ HasBody(r) /\ run[r].hpc # "received") =>
      /\ ~Auth(r).thrown
      /\ run[r].fault # "handler"

\* C9: no fault escapes the background phase, whatever the outcomes of the
\* dispatch call and of the notification calls.
C9_NoFaultEscapes ==
  \A r \in reqs : run[r].bpc # "crashed"

\* C10: in part_002, when the broadcast POST fails after a successful
\* dispatch, no failure notification is sent and the handler does return 200.
C10_BroadcastFailureHarmless ==
  \A r \in reqs :
    (variant = "part_002" /\ BroadcastError(r)) =>
      /\ Len(Failures(r)) = 0
      /\ Completed(r) => run[r].httpStatus = 200

\* authorize has turned request r down.
Rejected(r) == HasBody(r) /\ run[r].hpc # "received" /\ Auth(r).thrown

\* C11: two requests that authorize turns down, for whatever reasons (a header
\* missing, the timestamp stale, the signature not matching, no secret
\* configured), get the same HTTP status and the same response body.
C11_AuthFailuresAlike ==
  \A r1, r2 \in reqs :
    (Rejected(r1) /\ Rejected(r2)) =>
      /\ run[r1].httpStatus = run[r2].httpStatus
      /\ run[r1].httpBody = run[r2].httpBody

\* The worker invocation queued for r has run to its end.
WorkerEnded(r) == Completed(r) /\ \A i \in 1..Len(queue) : queue[i].for # r

\* C12: in index.ts a request acknowledged with 200 gets, from the worker
\* invocation queued for it, its one dispatch attempt and an outcome
\* notification: when that invocation has ended, both have been made.
C12_AcknowledgedIsServed ==
  \A r \in reqs :
    (variant = "index" /\ run[r].httpStatus = 200 /\ WorkerEnded(r)) =>
      /\ Len(run[r].dispatches) = 1
      /\ Len(Outcomes(r)) >= 1

\* The command that request r carries, as its sender built it.
Commands == PayloadsOf(1) \cup PayloadsOf(2)
Sent(r) == CHOOSE p \in Commands : Base64Encode(FormEncode(p)) = request[r].body

\* The tokens put back together with single spaces.
RECURSIVE JoinWithSpaces(_)
JoinWithSpaces(tokens) ==
  IF tokens = <<>> THEN <<>>
  ELSE IF Len(tokens) = 1 THEN tokens[1]
  ELSE tokens[1] \o <<" ">> \o JoinWithSpaces(Tail(tokens))

\* tokens is the text cut at its single spaces: no token holds a space, and
\* the tokens joined with spaces are the text.
TokensOf(tokens, text) ==
  /\ Len(tokens) >= 1
  /\ \A i \in 1..Len(tokens) : \A j \in 1..Len(tokens[i]) : tokens[i][j] # " "
  /\ JoinWithSpaces(tokens) = text

\* Request r came with a command text of at least one character.
HasText(r) ==
  HasBody(r) /\ "text" \in DOMAIN Sent(r) /\ Sent(r)["text"] # <<>>

DeployStagingFast ==
  <<"d", "e", "p", "l", "o", "y", " ", "s", "t", "a", "g", "i", "n", "g", " ",
    "f", "a", "s", "t">>

\* C14: the argument sequence derived from a command whose text is "" or is
\* absent is the empty sequence, and the one derived from
\* "deploy staging fast" is <<"deploy", "staging", "fast">>.
C14_ArgumentSequence ==
  /\ \A r \in reqs :
       (Decoded(r) /\ Falsy(Field(run[r].body, "text"))) =>
         /\ ~ArgsUndefined(run[r].body)
         /\ Len(Args(run[r].body)) = 0
  /\ Split(DeployStagingFast) =
       <<<<"d", "e", "p", "l", "o", "y">>, <<"s", "t", "a", "g", "i", "n", "g">>,
         <<"f", "a", "s", "t">>>>

\* The dispatch calls made for r, without their outcomes.
DispatchCalls(r) ==
  [i \in 1..Len(run[r].dispatches) |->
     [event_type |-> run[r].dispatches[i].event_type,
      client_payload |-> run[r].dispatches[i].client_payload]]

\* Request r is a genuine one: signed with the configured secret over its own
\* timestamp and body, and within the freshness window when it is handled.
Valid(r) == HasBody(r) /\ SignatureMatches(r) /\ Fresh(r)

\* C15: when the same request (same headers, same body) is handled twice, the
\* dispatch calls made for the two are the same, event_type and
\* client_payload, whatever was handled before and however the two interleave.
C15_RepeatSameDispatch ==
  \A r1, r2 \in reqs :
    (/\ request[r1] = request[r2]
     /\ run[r1].dispatches # <<>>
     /\ run[r2].dispatches # <<>>) =>
      DispatchCalls(r1) = DispatchCalls(r2)

\* The same genuine request was handled twice, at different times, the first
\* to its end, and a dispatch call was made each time.
C15_Witness ==
  /\ request[1] = request[2]
  /\ nowMs[1] # nowMs[2]
  /\ Valid(1) /\ Valid(2)
  /\ Completed(1)
  /\ run[1].dispatches # <<>>
  /\ run[2].dispatches # <<>>

\* A call made for r itself has failed, or its command has no text to split
\* (part_002, part_003: the TypeError of args[0]).
OwnFault(r) ==
  \/ DispatchError(r)
  \/ \E j \in 1..Len(run[r].posts) : run[r].posts[j].outcome = "error"
  \/ "text" \notin DOMAIN Sent(r)

Invocations(r) ==
  Cardinality({i \in 1..Len(queue) : queue[i].for = r})
    + (IF run[r].bpc # "idle" THEN 1 ELSE 0)

\* The response to a request whose Invoke call was rejected.
InvokeRejected(r) == run[r].httpBody = Ephemeral(<<"Error: ", "invoke failed">>)

\* C17: in index.ts a request answered 200 has exactly one worker invocation
\* accepted for it, and a request whose Invoke call was rejected is answered
\* 500 and has no worker invocation, no dispatch call and no POST; no request
\* answered otherwise than 200 has a worker invocation.
C17_AckAfterInvoke ==
  \A r \in reqs :
    variant = "index" =>
      /\ run[r].httpStatus = 200 => Invocations(r) = 1
      /\ InvokeRejected(r) =>
           /\ run[r].httpStatus = 500
           /\ Invocations(r) = 0
           /\ run[r].dispatches = <<>>
           /\ run[r].posts = <<>>
      /\ (run[r].hpc = "responded" /\ run[r].httpStatus # 200) => Invocations(r) = 0

\* Of two requests to index.ts one was answered 200 and its worker invocation
\* has started, the other's Invoke call was rejected.
C17_Witness ==
  /\ variant = "index"
  /\ \E r1, r2 \in reqs :
       /\ run[r1].httpStatus = 200
       /\ run[r1].bpc # "idle"
       /\ InvokeRejected(r2)

\* C18: in index.ts the command a started worker invocation works on has the
\* text, command, user_name and response_url that the acknowledger decoded
\* from the request body, and the invocation has reached the dispatch call.
C18_HandOffPreserves ==
  \A r \in reqs :
    (variant = "index" /\ run[r].bpc # "idle") =>
      /\ \A k \in {"text", "command", "user_name", "response_url"} :
           Field(run[r].body, k) = Field(Decode(request[r].body), k)
      /\ run[r].dispatches # <<>>

====
